---- MODULE Spec2Model ----
(***************************************************************************)
(* A model of the request-dispatch layer of deezer-rs: DeezerClient         *)
(* (src/src/client.rs), the album sub-clients (src/src/clients/albums.rs),  *)
(* the search builder (src/src/search.rs) and the by-id / lazy-resolution   *)
(* accessors of the record types (src/src/models).                          *)
(*                                                                          *)
(* A Rust String is a sequence of one-character strings, so that            *)
(* formatting (format!, to_string) is computed, not assumed.                *)
(*                                                                          *)
(* reqwest is an external crate.  Two facts of its documented behaviour     *)
(* are used: Response::error_for_status fails exactly for the client and    *)
(* server error statuses (400..599), and Response::json fails when the      *)
(* body does not deserialize as the requested type.                         *)
(***************************************************************************)
EXTENDS Integers, Sequences, FiniteSets, TLC

\* ------------------------------------------------------------------ bounds

\* The sample ids are 0, IdStep, 2*IdStep, ..., MaxIdIndex*IdStep: one-digit
\* and two-digit ids both occur.
IdStep == 5
MaxIdIndex == 2
\* The longest data array a response envelope carries.
MaxData == 2

Ids == {IdStep * i : i \in 0..MaxIdIndex}

\* ----------------------------------------------------------------- strings

s_slash == <<"/">>
s_album == <<"a","l","b","u","m">>
s_artist == <<"a","r","t","i","s","t">>
s_albums == <<"a","l","b","u","m","s">>
s_comment == <<"c","o","m","m","e","n","t">>
s_editorial == <<"e","d","i","t","o","r","i","a","l">>
s_genre == <<"g","e","n","r","e">>
s_playlist == <<"p","l","a","y","l","i","s","t">>
s_radio == <<"r","a","d","i","o">>
s_track == <<"t","r","a","c","k">>
s_user == <<"u","s","e","r">>
s_comments == <<"c","o","m","m","e","n","t","s">>
s_fans == <<"f","a","n","s">>
s_tracks == <<"t","r","a","c","k","s">>
s_infos == <<"i","n","f","o","s">>
s_chart == <<"c","h","a","r","t">>
s_options == <<"o","p","t","i","o","n","s">>
s_upc_prefix == <<"u","p","c",":">>

BASE_URL == <<"h","t","t","p","s",":","/","/","a","p","i",".","d","e","e","z","e","r",".","c","o","m">>

Digits == <<"0","1","2","3","4","5","6","7","8","9">>

\* u64::to_string: the decimal digits, most significant first, no sign, no
\* leading zero (0 renders as "0").
RECURSIVE to_string(_)
to_string(n) ==
    IF n < 10 THEN <<Digits[n + 1]>>
    ELSE to_string(n \div 10) \o <<Digits[(n % 10) + 1]>>

\* format!("{}/{}", a, b)
format_slash(a, b) == a \o s_slash \o b

\* ------------------------------------------------------- resource descriptors

\* The types that implement DeezerObject.
ObjectKinds ==
    {"Album", "Artist", "ArtistAlbum", "Comment", "Editorial", "Genre",
     "Playlist", "Radio", "Track", "User"}

\* DeezerObject::get_api_url (named get_by_id in client.rs and artist.rs),
\* one impl per type.
get_by_id(T, id) ==
    CASE T = "Album" -> format_slash(s_album, to_string(id))
      [] T = "Artist" -> format_slash(s_artist, to_string(id))
      [] T = "ArtistAlbum" ->
            format_slash(format_slash(s_artist, to_string(id)), s_albums)
      [] T = "Comment" -> format_slash(s_comment, to_string(id))
      [] T = "Editorial" -> format_slash(s_editorial, to_string(id))
      [] T = "Genre" -> format_slash(s_genre, to_string(id))
      [] T = "Playlist" -> format_slash(s_playlist, to_string(id))
      [] T = "Radio" -> format_slash(s_radio, to_string(id))
      [] T = "Track" -> format_slash(s_track, to_string(id))
      [] T = "User" -> format_slash(s_user, to_string(id))

\* The types that implement DeezerEnumerable.
EnumerableKinds == {"Editorial", "Genre", "Radio"}

\* Mutant of get_all_api_url: the genre list is asked for in the plural.
get_all_api_url_plural(T) ==
    CASE T = "Editorial" -> s_editorial
      [] T = "Genre" -> s_genre \o <<"s">>
      [] T = "Radio" -> s_radio

\* DeezerEnumerable::get_all_api_url, one impl per type.
get_all_api_url(T) ==
    CASE T = "Editorial" -> s_editorial
      [] T = "Genre" -> s_genre
      [] T = "Radio" -> s_radio

\* The connections of Album: the child type of each.
AlbumConnections ==
    {"AlbumCommentConnection", "AlbumFanConnection", "AlbumTrackConnection"}

\* Mutant of get_connection_url: the fans connection asks for the tracks path.
get_connection_url_fans_as_tracks(C, identifier) ==
    CASE C = "AlbumCommentConnection" ->
            format_slash(format_slash(s_album, identifier), s_comments)
      [] C = "AlbumFanConnection" ->
            format_slash(format_slash(s_album, identifier), s_tracks)
      [] C = "AlbumTrackConnection" ->
            format_slash(format_slash(s_album, identifier), s_tracks)
      [] C = "ArtistAlbum" ->
            format_slash(format_slash(s_artist, identifier), s_albums)

\* DeezerConnection<C>::get_connection_url for Album and for Artist.
get_connection_url(C, identifier) ==
    CASE C = "AlbumCommentConnection" ->
            format_slash(format_slash(s_album, identifier), s_comments)
      [] C = "AlbumFanConnection" ->
            format_slash(format_slash(s_album, identifier), s_fans)
      [] C = "AlbumTrackConnection" ->
            format_slash(format_slash(s_album, identifier), s_tracks)
      [] C = "ArtistAlbum" ->
            format_slash(format_slash(s_artist, identifier), s_albums)

\* The scalar endpoints: api_info, charts, user_options (client.rs 120-136).
ScalarOps == {"api_info", "charts", "user_options"}

\* Mutant of scalar_url: charts asks for the plural path.
scalar_url_plural(op) ==
    CASE op = "api_info" -> s_infos
      [] op = "charts" -> s_chart \o <<"s">>
      [] op = "user_options" -> s_options

scalar_url(op) ==
    CASE op = "api_info" -> s_infos
      [] op = "charts" -> s_chart
      [] op = "user_options" -> s_options

scalar_type(op) ==
    CASE op = "api_info" -> "Infos"
      [] op = "charts" -> "Chart"
      [] op = "user_options" -> "Options"

\* ------------------------------------------------------------ AlbumIdentifier

\* The UPC strings a caller passes to AlbumsClient::upc: any String, the
\* empty one and one made of digits included.
Upcs == { <<>>, <<"7","2">>, <<"5">> }

IdentifierId(n) == [tag |-> "Id", id |-> n]
IdentifierUpc(u) == [tag |-> "Upc", upc |-> u]

AlbumIdentifiers ==
    {IdentifierId(n) : n \in Ids} \cup {IdentifierUpc(u) : u \in Upcs}

\* Mutant of serialize: the UPC goes out without its prefix.
serialize_no_prefix(ident) ==
    IF ident.tag = "Id" THEN to_string(ident.id)
    ELSE ident.upc

\* AlbumIdentifier::serialize
serialize(ident) ==
    IF ident.tag = "Id" THEN to_string(ident.id)
    ELSE s_upc_prefix \o ident.upc

\* --------------------------------------------------------------------- search

SearchOrders ==
    {"Ranking", "TrackAsc", "TrackDesc", "ArtistAsc", "ArtistDesc", "AlbumAsc",
     "AlbumDesc", "RatingAsc", "RatingDesc", "DurationAsc", "DurationDesc"}

\* Mutant of order_to_string: TrackDesc is written as TrackAsc is.
order_to_string_track_asc_twice(o) ==
    CASE o = "Ranking" -> <<"R","A","N","K","I","N","G">>
      [] o \in {"TrackAsc", "TrackDesc"} -> <<"T","R","A","C","K","_","A","S","C">>
      [] o = "ArtistAsc" -> <<"A","R","T","I","S","T","_","A","S","C">>
      [] o = "ArtistDesc" -> <<"A","R","T","I","S","T","_","D","E","S","C">>
      [] o = "AlbumAsc" -> <<"A","L","B","U","M","_","A","S","C">>
      [] o = "AlbumDesc" -> <<"A","L","B","U","M","_","D","E","S","C">>
      [] o = "RatingAsc" -> <<"R","A","T","I","N","G","_","A","S","C">>
      [] o = "RatingDesc" -> <<"R","A","T","I","N","G","_","D","E","S","C">>
      [] o = "DurationAsc" -> <<"D","U","R","A","T","I","O","N","_","A","S","C">>
      [] o = "DurationDesc" -> <<"D","U","R","A","T","I","O","N","_","D","E","S","C">>

\* impl Display for SearchOrder
order_to_string(o) ==
    CASE o = "Ranking" -> <<"R","A","N","K","I","N","G">>
      [] o = "TrackAsc" -> <<"T","R","A","C","K","_","A","S","C">>
      [] o = "TrackDesc" -> <<"T","R","A","C","K","_","D","E","S","C">>
      [] o = "ArtistAsc" -> <<"A","R","T","I","S","T","_","A","S","C">>
      [] o = "ArtistDesc" -> <<"A","R","T","I","S","T","_","D","E","S","C">>
      [] o = "AlbumAsc" -> <<"A","L","B","U","M","_","A","S","C">>
      [] o = "AlbumDesc" -> <<"A","L","B","U","M","_","D","E","S","C">>
      [] o = "RatingAsc" -> <<"R","A","T","I","N","G","_","A","S","C">>
      [] o = "RatingDesc" -> <<"R","A","T","I","N","G","_","D","E","S","C">>
      [] o = "DurationAsc" -> <<"D","U","R","A","T","I","O","N","_","A","S","C">>
      [] o = "DurationDesc" -> <<"D","U","R","A","T","I","O","N","_","D","E","S","C">>

\* impl Default for SearchOrder
default_order == "Ranking"

SearchResources ==
    {"Albums", "Artists", "SearchHistory", "Playlists", "Podcasts", "Radio",
     "Tracks", "Users"}

s_search == <<"s","e","a","r","c","h">>

\* SearchResource::url
resource_url(r) ==
    CASE r = "Albums" -> format_slash(s_search, s_album)
      [] r = "Artists" -> format_slash(s_search, s_artist)
      [] r = "SearchHistory" -> format_slash(s_search, <<"h","i","s","t","o","r","y">>)
      [] r = "Playlists" -> format_slash(s_search, s_playlist)
      [] r = "Podcasts" -> format_slash(s_search, <<"p","o","d","c","a","s","t">>)
      [] r = "Radio" -> format_slash(s_search, s_radio)
      [] r = "Tracks" -> format_slash(s_search, s_track)
      [] r = "Users" -> format_slash(s_search, s_user)

\* impl Searchable for SearchedAlbum (the only impl)
searchable_resource(Model) == IF Model = "SearchedAlbum" THEN "Albums" ELSE "Tracks"

\* The query texts a caller passes to AlbumsClient::search.
Queries == { <<"e","m">>, <<>> }

\* SearchQuery::new
SearchQuery_new(q) == [query |-> q, strict |-> FALSE, order |-> default_order]

\* SearchClient::new
SearchClient_new(Model, q) ==
    [client |-> "caller", query |-> SearchQuery_new(q),
     resource |-> searchable_resource(Model), model |-> Model]

\* Mutant of strict: the flag is flipped instead of set.
strict_toggle(b) == [b EXCEPT !.query.strict = ~@]

\* Mutant of order: the query is built anew around the text and the order.
order_new_query(b, o) ==
    [b EXCEPT !.query = [query |-> b.query.query, strict |-> FALSE, order |-> o]]

\* SearchClient::strict
strict(b) == [b EXCEPT !.query.strict = TRUE]

\* SearchClient::order
order(b, o) == [b EXCEPT !.query.order = o]

s_on == <<"o","n">>

\* Mutant of send_params: the strict key always goes out, "on" or "off".
send_params_strict_always(b) ==
    [k \in {"q", "order", "strict"} |->
        CASE k = "q" -> b.query.query
          [] k = "order" -> order_to_string(b.query.order)
          [] k = "strict" -> IF b.query.strict THEN s_on ELSE <<"o","f","f">>]

\* The HashMap SearchClient::send assembles: a function from key to value.
send_params(b) ==
    LET base == [k \in {"q", "order"} |->
                    IF k = "q" THEN b.query.query
                    ELSE order_to_string(b.query.order)]
    IN  IF b.query.strict
        THEN [k \in {"q", "order", "strict"} |->
                 IF k = "strict" THEN s_on ELSE base[k]]
        ELSE base

\* ------------------------------------------------------------- query strings

\* Option<&HashMap<String, String>>: no map at all, or a map (maybe empty).
NoParams == [some |-> FALSE, map |-> <<>>]
SomeParams(m) == [some |-> TRUE, map |-> m]

\* Option<u32>, as _get_connection receives its limit and offset.
NoneU32 == [some |-> FALSE, v |-> 0]
SomeU32(n) == [some |-> TRUE, v |-> n]

\* The largest limit or offset a caller passes.
MaxPage == 1

\* The limits and offsets a caller passes: none, the small ones from 0 on,
\* and 5.
PageArgs == {NoneU32} \cup {SomeU32(n) : n \in 0..MaxPage} \cup {SomeU32(5)}

\* Mutant of page_params: an offset that was not given goes out as 0.
page_params_offset_default(limit, offset) ==
    [k \in (IF limit.some THEN {"limit"} ELSE {}) \cup {"offset"} |->
        IF k = "limit" THEN to_string(limit.v) ELSE to_string(offset.v)]

\* Mutant of page_params: a limit or offset of 0 goes out as an empty value.
page_params_zero_empty(limit, offset) ==
    [k \in (IF limit.some THEN {"limit"} ELSE {})
           \cup (IF offset.some THEN {"offset"} ELSE {}) |->
        LET v == IF k = "limit" THEN limit.v ELSE offset.v
        IN  IF v = 0 THEN <<>> ELSE to_string(v)]

\* The HashMap _get_connection assembles from its limit and offset.
page_params(limit, offset) ==
    [k \in (IF limit.some THEN {"limit"} ELSE {})
           \cup (IF offset.some THEN {"offset"} ELSE {}) |->
        IF k = "limit" THEN to_string(limit.v) ELSE to_string(offset.v)]

\* ---------------------------------------------------------------- responses

\* The statuses the server answers with: success (200, 204), redirection
\* without a Location (304), client errors (400, 404) and a server error.
Statuses == {200, 204, 304, 400, 404, 500}

NOT_FOUND == 404

\* A response body: not JSON of the wanted form at all, a JSON object that
\* carries the fields of record type `shape` with id field `id`, or the
\* envelope {"data": [...]} around a list of such elements.
JInvalid == [t |-> "invalid"]
JObject(shape, id) == [t |-> "object", shape |-> shape, id |-> id]
JEnvelope(data) == [t |-> "envelope", data |-> data]

\* What the transport hands back from send().await: a failure, or a
\* response with a status and a body.
TransportFailure == [t |-> "fail"]
Http(status, body) == [t |-> "http", status |-> status, body |-> body]

\* An object that carries the fields of no record type of the crate, such as
\* the service's {"error": {...}} object.
Foreign == "Foreign"

SeqsUpTo(S, n) == UNION {[1..k -> S] : k \in 0..n}

\* The bodies a response to a request for one T can carry.
ObjectBodies(T) ==
    {JInvalid, JEnvelope(<<>>), JObject(Foreign, 0)}
        \cup {JObject(T, i) : i \in Ids}

\* The bodies a response to a request for a list of C can carry.
ArrayBodies(C) ==
    {JInvalid, JObject(C, 0)}
        \cup {JEnvelope(d) :
                d \in SeqsUpTo({JObject(C, i) : i \in Ids}
                                  \cup {JObject(Foreign, 0)}, MaxData)}

\* --------------------------------------------------------------- results

\* No response yet; no result yet (or none ever: the task panicked).
NoResp == [t |-> "none"]
NoResult == [t |-> "none"]

NoneV == [t |-> "None"]
Some(v) == [t |-> "Some", v |-> v]

Ok(v) == [t |-> "Ok", v |-> v]
\* DeezerError::HttpError(reqwest::Error): the error's kind, and the status
\* it carries (reqwest::Error::status), 0 when it carries none.
Err(kind, status) == [t |-> "Err", kind |-> kind, status |-> status]

\* A decoded record: its type and its id field.
Value(T, id) == [type |-> T, id |-> id]

\* serde: one JSON value as record type T.  It succeeds only on an object
\* that carries T's fields.
decode_object(T, body) ==
    IF body.t = "object" /\ body.shape = T
    THEN [ok |-> TRUE, v |-> Value(T, body.id)]
    ELSE [ok |-> FALSE, v |-> Value(T, 0)]

\* Mutant of decode_array: a bad element is skipped instead of failing the
\* whole body.
decode_array_lossy(C, body) ==
    IF body.t = "envelope"
    THEN LET good == {i \in 1..Len(body.data) : decode_object(C, body.data[i]).ok}
             RECURSIVE pick(_)
             pick(i) == IF i > Len(body.data) THEN <<>>
                        ELSE IF i \in good
                             THEN <<decode_object(C, body.data[i]).v>> \o pick(i + 1)
                             ELSE pick(i + 1)
         IN  [ok |-> TRUE, v |-> [data |-> pick(1)]]
    ELSE [ok |-> FALSE, v |-> [data |-> <<>>]]

\* serde: a JSON value as DeezerArray<C>.  It succeeds only on an envelope
\* all of whose elements decode; one bad element fails the whole body.
decode_array(C, body) ==
    IF body.t = "envelope"
       /\ \A i \in 1..Len(body.data) : decode_object(C, body.data[i]).ok
    THEN [ok |-> TRUE,
          v |-> [data |-> [i \in 1..Len(body.data) |->
                              decode_object(C, body.data[i]).v]]]
    ELSE [ok |-> FALSE, v |-> [data |-> <<>>]]

\* The type a body is decoded as: record type `of`, or DeezerArray<of>.
Single(T) == [array |-> FALSE, of |-> T]
DeezerArray(C) == [array |-> TRUE, of |-> C]

\* Response::json::<T>()
json(target, body) ==
    IF target.array THEN decode_array(target.of, body)
    ELSE decode_object(target.of, body)

\* Response::error_for_status: an error for a client or server error status.
is_error_status(status) == status >= 400 /\ status <= 599

\* Mutant of get_entity_from_url: error_for_status runs before the not-found
\* test.
get_entity_from_url_status_first(T, resp) ==
    IF resp.t = "fail" THEN Err("transport", 0)
    ELSE IF is_error_status(resp.status) THEN Err("status", resp.status)
    ELSE IF resp.status = NOT_FOUND THEN Ok(NoneV)
    ELSE LET body == json(Single(T), resp.body)
         IN  IF body.ok THEN Ok(Some(body.v)) ELSE Err("decode", 0)

\* Mutant of get_entity_from_url: error_for_status is left out.
get_entity_from_url_no_status(T, resp) ==
    IF resp.t = "fail" THEN Err("transport", 0)
    ELSE IF resp.status = NOT_FOUND THEN Ok(NoneV)
    ELSE LET body == json(Single(T), resp.body)
         IN  IF body.ok THEN Ok(Some(body.v)) ELSE Err("decode", 0)

\* DeezerClient::get_entity_from_url from the point where send().await
\* returns: the not-found test, then error_for_status, then json.
get_entity_from_url(T, resp) ==
    IF resp.t = "fail" THEN Err("transport", 0)
    ELSE IF resp.status = NOT_FOUND THEN Ok(NoneV)
    ELSE IF is_error_status(resp.status) THEN Err("status", resp.status)
    ELSE LET body == json(Single(T), resp.body)
         IN  IF body.ok THEN Ok(Some(body.v)) ELSE Err("decode", 0)

\* Mutant of get_with_optional_params: a 404 is taken for an empty body
\* instead of an error.
get_with_optional_params_404_empty(target, resp) ==
    IF resp.t = "fail" THEN Err("transport", 0)
    ELSE IF resp.status = NOT_FOUND
         THEN Ok(IF target.array THEN [data |-> <<>>] ELSE Value(target.of, 0))
    ELSE IF is_error_status(resp.status) THEN Err("status", resp.status)
    ELSE LET res == json(target, resp.body)
         IN  IF res.ok THEN Ok(res.v) ELSE Err("decode", 0)

\* Mutant of get_with_optional_params: the body is decoded first and the
\* status is looked at afterwards.
get_with_optional_params_decode_first(target, resp) ==
    IF resp.t = "fail" THEN Err("transport", 0)
    ELSE LET res == json(target, resp.body)
         IN  IF ~res.ok THEN Err("decode", 0)
             ELSE IF is_error_status(resp.status) THEN Err("status", resp.status)
             ELSE Ok(res.v)

\* DeezerClient::get_with_optional_params from the point where send().await
\* returns: error_for_status, then json.
get_with_optional_params(target, resp) ==
    IF resp.t = "fail" THEN Err("transport", 0)
    ELSE IF is_error_status(resp.status) THEN Err("status", resp.status)
    ELSE LET res == json(target, resp.body)
         IN  IF res.ok THEN Ok(res.v) ELSE Err("decode", 0)

\* Mutant of take_data: the elements are handed over last first.
take_data_reversed(r) ==
    IF r.t = "Ok"
    THEN Ok([i \in 1..Len(r.v.data) |-> r.v.data[Len(r.v.data) + 1 - i]])
    ELSE r

\* get_all, get_array_params, get_connection, _get_connection after the
\* fetch: `?` passes an error on, Ok(res.data) otherwise.
take_data(r) == IF r.t = "Ok" THEN Ok(r.v.data) ELSE r

\* -------------------------------------------------- lazy-resolution accessors

\* The referenced-subset records that offer get_full().
SubsetKinds ==
    {"AlbumArtist", "AlbumTrackArtist", "AlbumTrack", "AlbumGenre",
     "ContributorArtist", "ArtistAlbum", "CommentAuthor", "PlaylistUser",
     "PlaylistTrack", "PlaylistTrackArtist", "PlaylistTrackAlbum",
     "TrackArtist", "TrackAlbum", "ChartTrack", "ChartTrackArtist",
     "ChartTrackAlbum", "ChartAlbum", "ChartAlbumArtist", "ChartArtist",
     "ChartPlaylist"}

\* Mutant of full_kind: ArtistAlbum's get_full() fetches through its own
\* type, ArtistAlbum::get(self.id).
full_kind_artist_album_self(S) ==
    CASE S \in {"AlbumArtist", "AlbumTrackArtist", "ContributorArtist",
                "PlaylistTrackArtist", "TrackArtist", "ChartTrackArtist",
                "ChartAlbumArtist", "ChartArtist"} -> "Artist"
      [] S \in {"AlbumTrack", "PlaylistTrack", "ChartTrack"} -> "Track"
      [] S = "AlbumGenre" -> "Genre"
      [] S = "ArtistAlbum" -> "ArtistAlbum"
      [] S \in {"PlaylistTrackAlbum", "TrackAlbum", "ChartTrackAlbum",
                "ChartAlbum"} -> "Album"
      [] S \in {"CommentAuthor", "PlaylistUser"} -> "User"
      [] S = "ChartPlaylist" -> "Playlist"

\* The full type each subset's get_full() fetches: the T of its T::get(self.id).
full_kind(S) ==
    CASE S \in {"AlbumArtist", "AlbumTrackArtist", "ContributorArtist",
                "PlaylistTrackArtist", "TrackArtist", "ChartTrackArtist",
                "ChartAlbumArtist", "ChartArtist"} -> "Artist"
      [] S \in {"AlbumTrack", "PlaylistTrack", "ChartTrack"} -> "Track"
      [] S = "AlbumGenre" -> "Genre"
      [] S \in {"ArtistAlbum", "PlaylistTrackAlbum", "TrackAlbum",
                "ChartTrackAlbum", "ChartAlbum"} -> "Album"
      [] S \in {"CommentAuthor", "PlaylistUser"} -> "User"
      [] S = "ChartPlaylist" -> "Playlist"

\* Mutant of get_full_finish: the Result is unwrapped too, so an error
\* panics as None does.
get_full_finish_unwrap_all(r) ==
    IF r.t = "Err" THEN [pc |-> "panicked", result |-> NoResult]
    ELSE IF r.v.t = "None" THEN [pc |-> "panicked", result |-> NoResult]
    ELSE [pc |-> "done", result |-> Ok(r.v.v)]

\* get_full() after T::get(self.id).await: `?` passes an error on, unwrap()
\* panics on None, Ok(value) otherwise.
get_full_finish(r) ==
    IF r.t = "Err" THEN [pc |-> "done", result |-> r]
    ELSE IF r.v.t = "None" THEN [pc |-> "panicked", result |-> NoResult]
    ELSE [pc |-> "done", result |-> Ok(r.v.v)]

\* ------------------------------------------------------------------- state

VARIABLES
    ops,    \* ops[o]: the operation task o is running, if any
    held    \* held[o]: the builder value task o holds in a local, if any

vars == <<ops, held>>

\* The caller's tasks: one at a time.
Tasks == {"t1"}

\* The running operation and its arguments: which one, for which type, with
\* which id, called on what, and the limit and offset it was given (None for
\* the operations that take none).
NoCall ==
    [op |-> "none", T |-> "none", id |-> 0, from |-> "none",
     limit |-> NoneU32, offset |-> NoneU32]
Call(op, T, id, from) ==
    [op |-> op, T |-> T, id |-> id, from |-> from,
     limit |-> NoneU32, offset |-> NoneU32]

Idle == [pc |-> "idle", call |-> NoCall, sent |-> <<>>, resp |-> NoResp,
         result |-> NoResult]

\* One request as handed to reqwest: client.get(url), with .query(params)
\* when a map is given.  `client` tells the DeezerClient it goes through:
\* the caller's (or a clone of it), or one made by DeezerClient::new() inside
\* the operation.
Request(url, params, client) ==
    [method |-> "GET", url |-> url, params |-> params, client |-> client]

\* Mutant of full_url: the origin is left out for a path that names a
\* search, which goes out relative.
full_url_search_relative(url) ==
    IF Len(url) >= 6 /\ SubSeq(url, 1, 6) = <<"s","e","a","r","c","h">>
    THEN <<"/">> \o url
    ELSE format_slash(BASE_URL, url)

\* format!("{}/{}", BASE_URL, url)
full_url(url) == format_slash(BASE_URL, url)

\* What a task holds: nothing, an AlbumClient, or a SearchClient.
Nothing == [kind |-> "none"]
AlbumClient(ident) == [kind |-> "AlbumClient", identifier |-> ident]
SearchClient(b) == [kind |-> "SearchClient", b |-> b]

Init ==
    /\ ops = [o \in Tasks |-> Idle]
    /\ held = [o \in Tasks |-> Nothing]

\* The operation starts: its request goes out and it awaits the answer.
Start(o, call, req) ==
    /\ ops[o].pc = "idle"
    /\ ops' = [ops EXCEPT ![o] =
                  [pc |-> "awaiting", call |-> call, sent |-> <<req>>,
                   resp |-> NoResp, result |-> NoResult]]

\* ---------------------------------------------------------------- builders

\* AlbumsClient::id
albums_id(n) == AlbumClient(IdentifierId(n))

\* AlbumsClient::upc
albums_upc(u) == AlbumClient(IdentifierUpc(u))

\* AlbumsClient::search
albums_search(q) == SearchClient(SearchClient_new("SearchedAlbum", q))

\* let c = client.albums().id(n);
AlbumsId(o) ==
    /\ ops[o].pc = "idle" /\ held[o] = Nothing
    /\ \E n \in Ids : held' = [held EXCEPT ![o] = albums_id(n)]
    /\ UNCHANGED ops

\* let c = client.albums().upc(u);
AlbumsUpc(o) ==
    /\ ops[o].pc = "idle" /\ held[o] = Nothing
    /\ \E u \in Upcs : held' = [held EXCEPT ![o] = albums_upc(u)]
    /\ UNCHANGED ops

\* Mutant of AlbumsSearch: search(q) sends the request at once.
AlbumsSearch_eager(o) ==
    /\ held[o] = Nothing
    /\ \E q \in Queries :
          /\ held' = [held EXCEPT ![o] = albums_search(q)]
          /\ Start(o, Call("send", "SearchedAlbum", 0, "SearchClient"),
                   Request(full_url(resource_url(albums_search(q).b.resource)),
                           SomeParams(send_params(albums_search(q).b)), "caller"))

\* let b = client.albums().search(q);
AlbumsSearch(o) ==
    /\ ops[o].pc = "idle" /\ held[o] = Nothing
    /\ \E q \in Queries : held' = [held EXCEPT ![o] = albums_search(q)]
    /\ UNCHANGED ops

\* let b = b.strict();
Strict(o) ==
    /\ ops[o].pc = "idle" /\ held[o].kind = "SearchClient"
    /\ held' = [held EXCEPT ![o] = SearchClient(strict(@.b))]
    /\ UNCHANGED ops

\* let b = b.order(ord);
Order(o) ==
    /\ ops[o].pc = "idle" /\ held[o].kind = "SearchClient"
    /\ \E ord \in SearchOrders :
          held' = [held EXCEPT ![o] = SearchClient(order(@.b, ord))]
    /\ UNCHANGED ops

\* ------------------------------------------------------- DeezerArray views

\* The DeezerArray values a caller takes out of a decoded record, such as
\* the tracks field of an Album: the wrapper around any short list.
DeezerArrays ==
    {[data |-> d] : d \in SeqsUpTo({Value("AlbumTrack", i) : i \in Ids}, MaxData)}

\* DeezerArray::iter: the items self.data.iter() yields, first to last.
iter(a) == [i \in 1..Len(a.data) |-> a.data[i]]

\* Mutant of deref: the view is a slice of the wrapper itself, not the
\* slice inside it.
deref_wrapper(a) == <<a>>

\* impl Deref for DeezerArray: self.data.deref(), the slice of data.
deref(a) == a.data

\* impl AsRef<[T]> for DeezerArray: &self.data as a slice.
as_ref(a) == a.data

\* impl IntoIterator for DeezerArray: the items self.data.into_iter()
\* yields, first to last.
into_iter(a) == [i \in 1..Len(a.data) |-> a.data[i]]

Views == {"iter", "deref", "as_ref", "into_iter"}

\* What a caller holds of a DeezerArray: the array itself, or what one of
\* its views exposed (`of` is the array the view was taken of).
HeldArray(a) == [kind |-> "DeezerArray", a |-> a]
HeldView(via, a, out) == [kind |-> "view", via |-> via, of |-> a, out |-> out]

\* let a = album.tracks;
TakeArray(o) ==
    /\ ops[o].pc = "idle" /\ held[o] = Nothing
    /\ \E a \in DeezerArrays : held' = [held EXCEPT ![o] = HeldArray(a)]
    /\ UNCHANGED ops

\* a.iter(), &*a, a.as_ref(), a.into_iter()
View(o) ==
    /\ ops[o].pc = "idle" /\ held[o].kind = "DeezerArray"
    /\ \E via \in Views :
          held' = [held EXCEPT ![o] =
                      HeldView(via, @.a,
                               CASE via = "iter" -> iter(@.a)
                                 [] via = "deref" -> deref(@.a)
                                 [] via = "as_ref" -> as_ref(@.a)
                                 [] via = "into_iter" -> into_iter(@.a))]
    /\ UNCHANGED ops

\* The held value goes out of scope.
DropBuilder(o) ==
    /\ ops[o].pc = "idle" /\ held[o] # Nothing
    /\ held' = [held EXCEPT ![o] = Nothing]
    /\ UNCHANGED ops

\* -------------------------------------------------------------- operations

\* The DeezerClient methods album, artist, comment, editorial, genre,
\* playlist, radio, track, user: get_entity::<T>(id).
ClientKinds == ObjectKinds \ {"ArtistAlbum"}

\* DeezerClient::get_entity up to send(): the request it issues.
get_entity_request(T, id, client) ==
    Request(full_url(get_by_id(T, id)), NoParams, client)

CallById(o) ==
    /\ held[o] = Nothing
    /\ \E T \in ClientKinds, id \in Ids :
          Start(o, Call("by_id", T, id, "DeezerClient"),
                get_entity_request(T, id, "caller"))
    /\ UNCHANGED held

\* DeezerObject::get: T::get(id), through DeezerClient::new().
CallObjectGet(o) ==
    /\ held[o] = Nothing
    /\ \E T \in ObjectKinds, id \in Ids :
          Start(o, Call("object_get", T, id, T),
                get_entity_request(T, id, "new"))
    /\ UNCHANGED held

\* Mutant of album_get_request: the album sub-client asks under "albums".
album_get_request_plural(ident) ==
    Request(full_url(format_slash(s_albums, serialize(ident))), NoParams, "caller")

\* AlbumClient::get up to send()
album_get_request(ident) ==
    Request(full_url(format_slash(s_album, serialize(ident))), NoParams, "caller")

\* c.get()
CallAlbumGet(o) ==
    /\ held[o].kind = "AlbumClient"
    /\ Start(o, Call("album_get", "Album", 0, "AlbumClient"),
             album_get_request(held[o].identifier))
    /\ UNCHANGED held

\* DeezerClient::get_all up to send()
get_all_request(T, client) ==
    Request(full_url(get_all_api_url(T)), NoParams, client)

\* DeezerClient::editorials, genres, radios
CallGetAll(o) ==
    /\ held[o] = Nothing
    /\ \E T \in EnumerableKinds :
          Start(o, Call("get_all", T, 0, "DeezerClient"),
                get_all_request(T, "caller"))
    /\ UNCHANGED held

\* DeezerEnumerable::get_all: T::get_all(), through DeezerClient::new().
CallEnumerableGetAll(o) ==
    /\ held[o] = Nothing
    /\ \E T \in EnumerableKinds :
          Start(o, Call("enumerable_get_all", T, 0, T),
                get_all_request(T, "new"))
    /\ UNCHANGED held

\* Mutant of get_connection_request: the connection accessors go through the
\* paginated fetch with a default limit.
get_connection_request_paged(C, identifier) ==
    Request(full_url(get_connection_url(C, identifier)),
            SomeParams(page_params(SomeU32(5), NoneU32)), "caller")

\* DeezerClient::get_connection up to send()
get_connection_request(C, identifier) ==
    Request(full_url(get_connection_url(C, identifier)), NoParams, "caller")

\* c.comments(), c.fans(), c.tracks()
CallConnection(o) ==
    /\ held[o].kind = "AlbumClient"
    /\ \E C \in AlbumConnections :
          Start(o, Call("connection", C, 0, "AlbumClient"),
                get_connection_request(C, serialize(held[o].identifier)))
    /\ UNCHANGED held

\* DeezerClient::_get_connection up to send()
paged_connection_request(C, identifier, limit, offset) ==
    Request(full_url(get_connection_url(C, identifier)),
            SomeParams(page_params(limit, offset)), "caller")

\* _get_connection::<Artist, ArtistAlbum, _, _>: crate-internal, the one
\* pair of types its bounds admit.
CallPagedConnection(o) ==
    /\ held[o] = Nothing
    /\ \E id \in Ids, limit \in PageArgs, offset \in PageArgs :
          Start(o, [Call("paged_connection", "ArtistAlbum", id, "DeezerClient")
                      EXCEPT !.limit = limit, !.offset = offset],
                paged_connection_request("ArtistAlbum", to_string(id), limit, offset))
    /\ UNCHANGED held

\* DeezerClient::get up to send(), as api_info, charts and user_options use it
scalar_request(op) == Request(full_url(scalar_url(op)), NoParams, "caller")

\* DeezerClient::api_info, charts, user_options
CallScalar(o) ==
    /\ held[o] = Nothing
    /\ \E op \in ScalarOps :
          Start(o, Call("scalar", scalar_type(op), 0, op), scalar_request(op))
    /\ UNCHANGED held

\* get_full() of a subset record whose id field is id: T::get(self.id)
CallGetFull(o) ==
    /\ held[o] = Nothing
    /\ \E S \in SubsetKinds, id \in Ids :
          Start(o, Call("get_full", full_kind(S), id, S),
                get_entity_request(full_kind(S), id, "new"))
    /\ UNCHANGED held

\* SearchClient::send up to send(): get_array_params(url, &params)
send_request(b) ==
    Request(full_url(resource_url(b.resource)), SomeParams(send_params(b)), b.client)

\* Mutant of Send: send borrows the builder, which stays with the caller.
Send_by_ref(o) ==
    /\ held[o].kind = "SearchClient"
    /\ Start(o, Call("send", held[o].b.model, 0, "SearchClient"),
             send_request(held[o].b))
    /\ UNCHANGED held

\* b.send(): the builder is moved into the call.
Send(o) ==
    /\ held[o].kind = "SearchClient"
    /\ Start(o, Call("send", held[o].b.model, 0, "SearchClient"),
             send_request(held[o].b))
    /\ held' = [held EXCEPT ![o] = Nothing]

\* ---------------------------------------------------------------- transport

EntityOps == {"by_id", "object_get", "album_get", "get_full"}
ArrayOps ==
    {"get_all", "enumerable_get_all", "connection", "paged_connection", "send"}

\* Everything send().await can come back with.
Responses(call) ==
    {TransportFailure}
        \cup {Http(st, b) :
                st \in Statuses,
                b \in IF call.op \in ArrayOps THEN ArrayBodies(call.T)
                      ELSE ObjectBodies(call.T)}

\* send().await returns.
Deliver(o) ==
    /\ ops[o].pc = "awaiting"
    /\ \E r \in Responses(ops[o].call) :
          ops' = [ops EXCEPT ![o].pc = "ready", ![o].resp = r]
    /\ UNCHANGED held

\* Mutant of outcome: a failed transport makes the operation send its
\* request again.
outcome_retry(call, resp) ==
    CASE resp.t = "fail" -> [pc |-> "awaiting", result |-> NoResult]
      [] resp.t # "fail" /\ call.op \in {"by_id", "object_get", "album_get"} ->
            [pc |-> "done", result |-> get_entity_from_url(call.T, resp)]
      [] resp.t # "fail" /\ call.op = "get_full" ->
            get_full_finish(get_entity_from_url(call.T, resp))
      [] resp.t # "fail" /\ call.op \in ArrayOps ->
            [pc |-> "done",
             result |-> take_data(get_with_optional_params(DeezerArray(call.T), resp))]
      [] resp.t # "fail" /\ call.op = "scalar" ->
            [pc |-> "done",
             result |-> get_with_optional_params(Single(call.T), resp)]

\* Mutant of outcome: the client remembers what it has fetched, and a by-id
\* fetch that another operation has already ended hands over None.
outcome_seen_before(call, resp) ==
    CASE call.op \in {"by_id", "object_get", "album_get"} ->
            [pc |-> "done",
             result |->
                IF \E p \in DOMAIN ops : ops[p].pc = "done" /\ ops[p].call = call
                THEN Ok(NoneV)
                ELSE get_entity_from_url(call.T, resp)]
      [] call.op = "get_full" ->
            get_full_finish(get_entity_from_url(call.T, resp))
      [] call.op \in ArrayOps ->
            [pc |-> "done",
             result |-> take_data(get_with_optional_params(DeezerArray(call.T), resp))]
      [] call.op = "scalar" ->
            [pc |-> "done",
             result |-> get_with_optional_params(Single(call.T), resp)]

\* Mutant of outcome: a list fetch that is answered with 500 sends its
\* request again and waits for the next answer.
outcome_retry_on_500(call, resp) ==
    CASE call.op \in {"by_id", "object_get", "album_get"} ->
            [pc |-> "done", result |-> get_entity_from_url(call.T, resp)]
      [] call.op = "get_full" ->
            get_full_finish(get_entity_from_url(call.T, resp))
      [] call.op \in ArrayOps ->
            IF resp.t = "http" /\ resp.status = 500
            THEN [pc |-> "awaiting", result |-> NoResult]
            ELSE [pc |-> "done",
                  result |-> take_data(get_with_optional_params(DeezerArray(call.T), resp))]
      [] call.op = "scalar" ->
            [pc |-> "done",
             result |-> get_with_optional_params(Single(call.T), resp)]

\* The rest of the operation once send().await has returned resp: where it
\* ends (done, panicked, or awaiting once more if it sent the request again)
\* and with what result.
outcome(call, resp) ==
    CASE call.op \in {"by_id", "object_get", "album_get"} ->
            [pc |-> "done", result |-> get_entity_from_url(call.T, resp)]
      [] call.op = "get_full" ->
            get_full_finish(get_entity_from_url(call.T, resp))
      [] call.op \in ArrayOps ->
            [pc |-> "done",
             result |-> take_data(get_with_optional_params(DeezerArray(call.T), resp))]
      [] call.op = "scalar" ->
            [pc |-> "done",
             result |-> get_with_optional_params(Single(call.T), resp)]

\* Mutant of Resume: the response is read from a slot all operations share,
\* so an operation may go on with the response another one received.
Resume_shared_response(o) ==
    /\ ops[o].pc = "ready"
    /\ \E p \in DOMAIN ops :
          /\ ops[p].resp # NoResp
          /\ LET out == outcome(ops[o].call, ops[p].resp)
             IN  ops' = [ops EXCEPT ![o].pc = out.pc, ![o].result = out.result]
    /\ UNCHANGED held

\* The operation runs on from its await point to its end.
Resume(o) ==
    /\ ops[o].pc = "ready"
    /\ LET out == outcome(ops[o].call, ops[o].resp)
       IN  ops' = [ops EXCEPT
                     ![o].pc = out.pc,
                     ![o].result = out.result,
                     ![o].sent = IF out.pc = "awaiting"
                                 THEN Append(@, @[Len(@)]) ELSE @]
    /\ UNCHANGED held

\* The caller takes the result (or the task died of the panic); the task
\* is free for the caller's next operation.
Release(o) ==
    /\ ops[o].pc \in {"done", "panicked"}
    /\ ops' = [ops EXCEPT ![o] = Idle]
    /\ UNCHANGED held

Next ==
    \/ \E o \in Tasks : AlbumsId(o)
    \/ \E o \in Tasks : AlbumsUpc(o)
    \/ \E o \in Tasks : AlbumsSearch(o)
    \/ \E o \in Tasks : Strict(o)
    \/ \E o \in Tasks : Order(o)
    \/ \E o \in Tasks : DropBuilder(o)
    \/ \E o \in Tasks : TakeArray(o)
    \/ \E o \in Tasks : View(o)
    \/ \E o \in Tasks : CallById(o)
    \/ \E o \in Tasks : CallObjectGet(o)
    \/ \E o \in Tasks : CallAlbumGet(o)
    \/ \E o \in Tasks : CallGetAll(o)
    \/ \E o \in Tasks : CallEnumerableGetAll(o)
    \/ \E o \in Tasks : CallConnection(o)
    \/ \E o \in Tasks : CallPagedConnection(o)
    \/ \E o \in Tasks : CallScalar(o)
    \/ \E o \in Tasks : CallGetFull(o)
    \/ \E o \in Tasks : Send(o)
    \/ \E o \in Tasks : Deliver(o)
    \/ \E o \in Tasks : Resume(o)
    \/ \E o \in Tasks : Release(o)

Spec == Init /\ [][Next]_vars

\* The transport answers every request in the end, with a response or a
\* failure (reqwest's send() future resolves), and the executor polls a
\* future that can go on.
\* The answers the fair runs are made of: any status around a body of at
\* most one element with one of the two smallest ids.
FairScope(op) ==
    op.resp.t = "http" =>
        /\ op.resp.body.t = "object" => op.resp.body.id \in {0, IdStep}
        /\ op.resp.body.t = "envelope" =>
              /\ Len(op.resp.body.data) <= 1
              /\ \A i \in 1..Len(op.resp.body.data) :
                    op.resp.body.data[i].id \in {0, IdStep}

NextFair ==
    \/ \E o \in Tasks : AlbumsId(o)
    \/ \E o \in Tasks : AlbumsUpc(o)
    \/ \E o \in Tasks : AlbumsSearch(o)
    \/ \E o \in Tasks : Strict(o)
    \/ \E o \in Tasks : Order(o)
    \/ \E o \in Tasks : DropBuilder(o)
    \/ \E o \in Tasks : CallById(o)
    \/ \E o \in Tasks : CallObjectGet(o)
    \/ \E o \in Tasks : CallAlbumGet(o)
    \/ \E o \in Tasks : CallGetAll(o)
    \/ \E o \in Tasks : CallEnumerableGetAll(o)
    \/ \E o \in Tasks : CallConnection(o)
    \/ \E o \in Tasks : CallPagedConnection(o)
    \/ \E o \in Tasks : CallScalar(o)
    \/ \E o \in Tasks : CallGetFull(o)
    \/ \E o \in Tasks : Send(o)
    \/ \E o \in Tasks : Deliver(o) /\ FairScope(ops'[o])
    \/ \E o \in Tasks : Resume(o)
    \/ \E o \in Tasks : Release(o)

SpecFair ==
    /\ Init /\ [][NextFair]_vars
    /\ \A o \in Tasks :
          /\ WF_vars(Deliver(o) /\ FairScope(ops'[o]))
          /\ WF_vars(Resume(o))

\* ------------------------------------------------ concurrent operations

\* Two operations in flight at once, each a task of the caller's executor
\* with the DeezerClient or a clone of it (DeezerClient derives Clone; its
\* one field is the reqwest::Client handle).
ConcurrentTasks == {"t1", "t2"}

InitConcurrent ==
    /\ ops = [o \in ConcurrentTasks |-> Idle]
    /\ held = [o \in ConcurrentTasks |-> Nothing]

\* The calls and answers the concurrent runs are made of: albums by the two
\* smallest ids, the genre list, and answers with the statuses 200, 404 and
\* 500 around a body of at most one element.
ConcurrentScope(op) ==
    /\ op.call.T \in {"Album", "Genre"}
    /\ op.call.id \in {0, IdStep}
    /\ op.resp.t = "http" =>
          /\ op.resp.status \in {200, 404, 500}
          /\ op.resp.body.t = "object" => op.resp.body.id \in {0, IdStep}
          /\ op.resp.body.t = "envelope" =>
                /\ Len(op.resp.body.data) <= 1
                /\ \A i \in 1..Len(op.resp.body.data) :
                      op.resp.body.data[i].id \in {0, IdStep}

NextConcurrent ==
    \/ \E o \in ConcurrentTasks : CallById(o) /\ ConcurrentScope(ops'[o])
    \/ \E o \in ConcurrentTasks : CallObjectGet(o) /\ ConcurrentScope(ops'[o])
    \/ \E o \in ConcurrentTasks : CallGetAll(o) /\ ConcurrentScope(ops'[o])
    \/ \E o \in ConcurrentTasks : Deliver(o) /\ ConcurrentScope(ops'[o])
    \/ \E o \in ConcurrentTasks : Resume(o)
    \/ \E o \in ConcurrentTasks : Release(o)

SpecConcurrent == InitConcurrent /\ [][NextConcurrent]_vars

\* ===================================================================== claims

Ended(o) == ops[o].pc \in {"done", "panicked"}
Done(o) == ops[o].pc = "done"

\* The identifier-keyed fetches: DeezerClient::<kind>(id), T::get(id) and
\* AlbumClient::get.
ByIdOps == {"by_id", "object_get", "album_get"}

GotStatus(o, st) == ops[o].resp.t = "http" /\ ops[o].resp.status = st

\* A body that is an object carrying the fields of record type T.
IsObjectOf(T, body) == body.t = "object" /\ body.shape = T

\* A body that is an envelope whose elements all carry the fields of C.
IsEnvelopeOf(C, body) ==
    /\ body.t = "envelope"
    /\ \A i \in 1..Len(body.data) : IsObjectOf(C, body.data[i])

\* The body of o's response has the form o's operation decodes.
WellFormed(o) ==
    IF ops[o].call.op \in ArrayOps
    THEN IsEnvelopeOf(ops[o].call.T, ops[o].resp.body)
    ELSE IsObjectOf(ops[o].call.T, ops[o].resp.body)

\* C1: an identifier-keyed fetch that receives status 404 returns Ok(None),
\* never an error, whatever the body is (the 404 test comes before the
\* error-status check and before the body is looked at).
C1_NotFoundIsNone ==
    \A o \in Tasks :
        (Done(o) /\ ops[o].call.op \in ByIdOps /\ GotStatus(o, 404))
            => ops[o].result = Ok(NoneV)

\* C1 witness: a by-id fetch got 404 with a body that would decode, and
\* returned Ok(None).
C1_Witness ==
    \E o \in Tasks :
        /\ Done(o) /\ ops[o].call.op \in ByIdOps /\ GotStatus(o, 404)
        /\ WellFormed(o)
        /\ ops[o].result = Ok(NoneV)

\* C2 as stated: an identifier-keyed fetch that receives a status outside the
\* success range other than 404 returns an error carrying that status.
C2_Original ==
    \A o \in Tasks :
        (Done(o) /\ ops[o].call.op \in ByIdOps /\ ops[o].resp.t = "http"
         /\ ~(ops[o].resp.status \in 200..299) /\ ops[o].resp.status # 404)
            => ops[o].result = Err("status", ops[o].resp.status)

\* C2 as amended: an identifier-keyed fetch that receives a client or server
\* error status (400..599) other than 404 returns an error carrying that
\* status, never Some(value) and never None.
C2_ErrorStatusIsError ==
    \A o \in Tasks :
        (Done(o) /\ ops[o].call.op \in ByIdOps /\ ops[o].resp.t = "http"
         /\ ops[o].resp.status \in 400..599 /\ ops[o].resp.status # 404)
            => ops[o].result = Err("status", ops[o].resp.status)

\* C2 witness: a by-id fetch got 500 with a body that would decode, and
\* returned the status error.
C2_Witness ==
    \E o \in Tasks :
        /\ Done(o) /\ ops[o].call.op \in ByIdOps /\ GotStatus(o, 500)
        /\ WellFormed(o)
        /\ ops[o].result = Err("status", 500)

\* C3: an operation that receives a success status with a body that is not
\* of the form its type decodes ends with an error: not Some, not None, not
\* a sequence (empty, truncated or otherwise).
C3_DecodeFailureIsError ==
    \A o \in Tasks :
        (Ended(o) /\ ops[o].resp.t = "http" /\ ops[o].resp.status \in 200..299
         /\ ~WellFormed(o))
            => /\ ops[o].pc = "done"
               /\ ops[o].result = Err("decode", 0)

\* C3 witness: a list operation got 200 and an envelope with one good and
\* one bad element, and returned the decode error.
C3_Witness ==
    \E o \in Tasks :
        /\ Done(o) /\ ops[o].call.op \in ArrayOps /\ GotStatus(o, 200)
        /\ ops[o].resp.body.t = "envelope"
        /\ Len(ops[o].resp.body.data) = 2
        /\ IsObjectOf(ops[o].call.T, ops[o].resp.body.data[1])
        /\ ~IsObjectOf(ops[o].call.T, ops[o].resp.body.data[2])
        /\ ops[o].result = Err("decode", 0)

\* The response o got is a failure of one of the three kinds: the transport
\* failed, the status is an error status (404 on an identifier-keyed fetch
\* set aside), or the body does not decode.
Failed(o) ==
    \/ ops[o].resp.t = "fail"
    \/ /\ ops[o].resp.t = "http"
       /\ \/ /\ ops[o].resp.status \in 400..599
             /\ ~(ops[o].resp.status = 404 /\ ops[o].call.op \in EntityOps)
          \/ /\ ~(ops[o].resp.status \in 400..599)
             /\ ~WellFormed(o)

IsRecordValue(v) == DOMAIN v = {"type", "id"}

\* The three ways an operation hands over to its caller.
HandsOver(o) ==
    /\ ops[o].pc = "done"
    /\ \/ ops[o].result.t = "Err"
       \/ /\ ops[o].result.t = "Ok"
          /\ ops[o].call.op \in ByIdOps
          /\ ops[o].result.v.t \in {"None", "Some"}
       \/ /\ ops[o].result.t = "Ok"
          /\ ops[o].call.op \in {"get_full", "scalar"}
          /\ IsRecordValue(ops[o].result.v)
       \/ /\ ops[o].result.t = "Ok"
          /\ ops[o].call.op \in ArrayOps
          /\ \A i \in 1..Len(ops[o].result.v) : IsRecordValue(ops[o].result.v[i])

\* C5 as stated: every operation that has ended, get_full() included, has
\* handed its caller a typed value, an absent marker or an error; none has
\* panicked.
C5_Original == \A o \in Tasks : Ended(o) => HandsOver(o)

\* C5 as amended: every operation that has ended has handed its caller a
\* typed value, an absent marker or an error, except get_full(), which
\* panics exactly when its fetch receives status 404 and otherwise hands
\* over a typed value or an error.
C5_HandsOverOrPanics ==
    \A o \in Tasks :
        Ended(o) =>
            IF ops[o].call.op = "get_full" /\ GotStatus(o, 404)
            THEN ops[o].pc = "panicked"
            ELSE HandsOver(o)

\* C5 witness: get_full() received 404 and panicked.
C5_Witness ==
    \E o \in Tasks :
        /\ ops[o].call.op = "get_full" /\ GotStatus(o, 404)
        /\ ops[o].pc = "panicked"

\* The operations that return a sequence: list-all, connection and search.
\* C6: such an operation that receives status 404 returns the status error,
\* never an empty sequence and never an absent result.
C6_ListNotFoundIsError ==
    \A o \in Tasks :
        (Ended(o) /\ ops[o].call.op \in ArrayOps /\ GotStatus(o, 404))
            => (Done(o) /\ ops[o].result = Err("status", 404))

\* C6 witness: a connection fetch got 404 around a well-formed empty
\* envelope and returned the status error.
C6_Witness ==
    \E o \in Tasks :
        /\ Done(o) /\ ops[o].call.op = "connection" /\ GotStatus(o, 404)
        /\ ops[o].resp.body = JEnvelope(<<>>)
        /\ ops[o].result = Err("status", 404)

\* The path each scalar operation is documented to ask for.
C7_Path(op) ==
    CASE op = "api_info" -> <<"i","n","f","o","s">>
      [] op = "charts" -> <<"c","h","a","r","t">>
      [] op = "user_options" -> <<"o","p","t","i","o","n","s">>

\* C7: api_info, charts and user_options send GET <origin>/infos, /chart and
\* /options with no query parameters; the body is decoded as the record
\* itself (an envelope does not decode); status 404 gives the status error.
C7_ScalarFetch ==
    \A o \in Tasks :
        ops[o].call.op = "scalar" =>
            /\ ops[o].sent =
                 <<[method |-> "GET",
                    url |-> BASE_URL \o <<"/">> \o C7_Path(ops[o].call.from),
                    params |-> NoParams, client |-> "caller"]>>
            /\ (Ended(o) /\ GotStatus(o, 404))
                  => (Done(o) /\ ops[o].result = Err("status", 404))
            /\ (Ended(o) /\ GotStatus(o, 200)
                /\ IsObjectOf(ops[o].call.T, ops[o].resp.body))
                  => ops[o].result = Ok(Value(ops[o].call.T, ops[o].resp.body.id))
            /\ (Ended(o) /\ GotStatus(o, 200) /\ ops[o].resp.body.t = "envelope")
                  => ops[o].result = Err("decode", 0)

\* C7 witness: charts got 404 and returned the status error.
C7_Witness ==
    \E o \in Tasks :
        /\ Done(o) /\ ops[o].call.from = "charts" /\ GotStatus(o, 404)
        /\ ops[o].result = Err("status", 404)

\* ---- reading a URL back

\* The pieces of s between the occurrences of the character sep.
RECURSIVE Split(_, _)
Split(s, sep) ==
    IF \A i \in 1..Len(s) : s[i] # sep THEN <<s>>
    ELSE LET i == CHOOSE k \in 1..Len(s) :
                      s[k] = sep /\ \A j \in 1..(k - 1) : s[j] # sep
         IN  <<SubSeq(s, 1, i - 1)>> \o Split(SubSeq(s, i + 1, Len(s)), sep)

\* The number a string of decimal digits denotes.
RECURSIVE ParseDec(_)
ParseDec(s) ==
    IF Len(s) = 0 THEN 0
    ELSE 10 * ParseDec(SubSeq(s, 1, Len(s) - 1))
         + (CHOOSE d \in 0..9 : Digits[d + 1] = s[Len(s)])

\* s is the bare decimal rendering of n: digits only, at least one, no
\* leading zero, denoting n.
IsDecimalOf(s, n) ==
    /\ Len(s) >= 1
    /\ \A i \in 1..Len(s) : \E d \in 1..10 : Digits[d] = s[i]
    /\ Len(s) > 1 => s[1] # "0"
    /\ ParseDec(s) = n

\* The path segments of a request's URL after the origin, or <<>> if the
\* URL does not start with the origin and a slash.
PathOf(url) ==
    IF /\ Len(url) > Len(BASE_URL)
       /\ SubSeq(url, 1, Len(BASE_URL)) = BASE_URL
       /\ url[Len(BASE_URL) + 1] = "/"
    THEN Split(SubSeq(url, Len(BASE_URL) + 2, Len(url)), "/")
    ELSE <<>>

\* The kind name of each by-id type: the first path segment of its resource.
C9_KindName(T) ==
    CASE T = "Album" -> <<"a","l","b","u","m">>
      [] T \in {"Artist", "ArtistAlbum"} -> <<"a","r","t","i","s","t">>
      [] T = "Comment" -> <<"c","o","m","m","e","n","t">>
      [] T = "Editorial" -> <<"e","d","i","t","o","r","i","a","l">>
      [] T = "Genre" -> <<"g","e","n","r","e">>
      [] T = "Playlist" -> <<"p","l","a","y","l","i","s","t">>
      [] T = "Radio" -> <<"r","a","d","i","o">>
      [] T = "Track" -> <<"t","r","a","c","k">>
      [] T = "User" -> <<"u","s","e","r">>

\* C9 as stated: the request of a by-id fetch of type T with id n, for each
\* of the ten types that implement DeezerObject, has the path <kind>/<n>:
\* two segments, the kind name and the bare decimal id.
C9_Original ==
    \A o \in Tasks :
        (ops[o].pc # "idle" /\ ops[o].call.op \in {"by_id", "object_get"}) =>
            LET path == PathOf(ops[o].sent[1].url)
            IN  /\ Len(path) = 2
                /\ path[1] = C9_KindName(ops[o].call.T)
                /\ IsDecimalOf(path[2], ops[o].call.id)

\* C10: an AlbumIdentifier has exactly one variant; in every request of an
\* AlbumClient the identifier segment is the bare decimal id for a numeric
\* identifier and "upc:" followed by the UPC unchanged for a UPC identifier,
\* and it is the segment of no identifier of the other variant.
C10_IdentifierSegment ==
    \A o \in Tasks :
        (ops[o].pc # "idle" /\ ops[o].call.op \in {"album_get", "connection"}) =>
            LET ident == held[o].identifier
                seg == PathOf(ops[o].sent[1].url)[2]
            IN  /\ ident.tag \in {"Id", "Upc"}
                /\ ident.tag = "Id" =>
                      (DOMAIN ident = {"tag", "id"} /\ IsDecimalOf(seg, ident.id))
                /\ ident.tag = "Upc" =>
                      (DOMAIN ident = {"tag", "upc"}
                       /\ seg = <<"u","p","c",":">> \o ident.upc)
                /\ \A other \in AlbumIdentifiers :
                      other.tag # ident.tag => serialize(other) # seg

\* C10 witness: an AlbumClient bound to the UPC "5" has sent a request whose
\* identifier segment is "upc:5", while the numeric id 5 is among the ids.
C10_Witness ==
    \E o \in Tasks :
        /\ ops[o].pc # "idle" /\ ops[o].call.op = "album_get"
        /\ held[o] = AlbumClient(IdentifierUpc(<<"5">>))
        /\ PathOf(ops[o].sent[1].url) = <<s_album, <<"u","p","c",":","5">>>>
        /\ 5 \in Ids

\* The identifier segment of an AlbumIdentifier, read off its variant: the
\* bare decimal for a numeric id, "upc:" and the UPC for a UPC.
IsSegmentOf(seg, ident) ==
    IF ident.tag = "Id" THEN IsDecimalOf(seg, ident.id)
    ELSE seg = <<"u","p","c",":">> \o ident.upc

\* The last path segment each connection accessor of AlbumClient asks for.
C11_Suffix(C) ==
    CASE C = "AlbumCommentConnection" -> <<"c","o","m","m","e","n","t","s">>
      [] C = "AlbumFanConnection" -> <<"f","a","n","s">>
      [] C = "AlbumTrackConnection" -> <<"t","r","a","c","k","s">>

\* The URL an AlbumClient bound to ident asks for: album/<s> for get(),
\* album/<s>/<suffix> for a connection accessor.
C11_IsUrlOf(url, call, ident) ==
    LET origin == BASE_URL \o <<"/">> \o <<"a","l","b","u","m">> \o <<"/">>
        rest == SubSeq(url, Len(origin) + 1, Len(url))
    IN  /\ Len(url) >= Len(origin)
        /\ SubSeq(url, 1, Len(origin)) = origin
        /\ IF call.op = "album_get" THEN IsSegmentOf(rest, ident)
           ELSE LET tail == <<"/">> \o C11_Suffix(call.T)
                IN  /\ Len(rest) >= Len(tail)
                    /\ SubSeq(rest, Len(rest) - Len(tail) + 1, Len(rest)) = tail
                    /\ IsSegmentOf(SubSeq(rest, 1, Len(rest) - Len(tail)), ident)

\* C11: every request of an AlbumClient is for album/<s>, album/<s>/comments,
\* album/<s>/fans or album/<s>/tracks, s being the serialization of the
\* identifier the AlbumClient was bound with; the three connection accessors
\* ask for three different URLs; and no step changes the identifier of an
\* AlbumClient (a call leaves the AlbumClient as it was).
C11_BoundIdentifier ==
    /\ [](\A o \in Tasks :
            (ops[o].pc # "idle" /\ ops[o].call.from = "AlbumClient") =>
                /\ held[o].kind = "AlbumClient"
                /\ Len(ops[o].sent) >= 1
                /\ \A i \in 1..Len(ops[o].sent) :
                      /\ C11_IsUrlOf(ops[o].sent[i].url, ops[o].call,
                                     held[o].identifier)
                      /\ \A C \in AlbumConnections :
                            (ops[o].call.op = "connection" /\ C # ops[o].call.T)
                              => ~C11_IsUrlOf(ops[o].sent[i].url,
                                              [ops[o].call EXCEPT !.T = C],
                                              held[o].identifier))
    /\ [][\A o \in Tasks :
             (held[o].kind = "AlbumClient" /\ held'[o].kind = "AlbumClient")
                => held'[o] = held[o]]_vars

\* C11 witness: an AlbumClient bound to the UPC "72" has asked for its fans
\* at album/upc:72/fans and still holds that identifier.
C11_Witness ==
    \E o \in Tasks :
        /\ ops[o].pc = "done" /\ ops[o].call.op = "connection"
        /\ ops[o].call.T = "AlbumFanConnection"
        /\ held[o] = AlbumClient(IdentifierUpc(<<"7","2">>))
        /\ ops[o].sent[1].url =
              BASE_URL \o <<"/","a","l","b","u","m","/","u","p","c",":","7","2",
                           "/","f","a","n","s">>

\* The step in which task o sends the search builder it holds.
C12_SendStep(o) ==
    /\ held[o].kind = "SearchClient"
    /\ ops[o].pc = "idle" /\ ops'[o].pc = "awaiting"

\* C12: SearchClient::send issues exactly one request, a GET of
\* <origin>/search/album, whose parameter map has q = the query text, order =
\* the wire token of the builder's order, and strict = "on" exactly when the
\* builder's strict flag is set; the flag is clear in a new builder and no
\* step clears it again, so it is set exactly when strict() was called; a
\* builder as albums().search(q) made it sends {q, order: "RANKING"} only.
C12_SendParameters ==
    /\ [](\A o \in Tasks :
            (ops[o].pc # "idle" /\ ops[o].call.op = "send") =>
                /\ Len(ops[o].sent) = 1
                /\ ops[o].sent[1].method = "GET"
                /\ ops[o].sent[1].url =
                      BASE_URL \o <<"/","s","e","a","r","c","h","/",
                                    "a","l","b","u","m">>)
    /\ [][\A o \in Tasks :
             /\ (held[o] = Nothing /\ held'[o].kind = "SearchClient") =>
                   (~held'[o].b.query.strict
                    /\ held'[o].b.query.order = "Ranking")
             /\ (held[o].kind = "SearchClient" /\ held'[o].kind = "SearchClient")
                   => /\ held[o].b.query.strict => held'[o].b.query.strict
                      /\ held'[o].b.query.query = held[o].b.query.query
             /\ C12_SendStep(o) =>
                   LET b == held[o].b
                       p == ops'[o].sent[1].params
                   IN  /\ p.some
                       /\ DOMAIN p.map =
                             {"q", "order"}
                               \cup (IF b.query.strict THEN {"strict"} ELSE {})
                       /\ p.map["q"] = b.query.query
                       /\ p.map["order"] = order_to_string(b.query.order)
                       /\ b.query.strict => p.map["strict"] = <<"o","n">>
                       /\ (\E q \in Queries : held[o] = albums_search(q)) =>
                             p.map = ("q" :> b.query.query)
                                       @@ ("order" :> <<"R","A","N","K","I","N","G">>)
       ]_vars

\* C12 witness: a search for "em" on which no setter was called is in flight
\* with the parameters {q: "em", order: "RANKING"} and no strict key.
C12_Witness ==
    \E o \in Tasks :
        /\ ops[o].pc = "awaiting" /\ ops[o].call.op = "send"
        /\ ops[o].sent[1].params =
              SomeParams(("q" :> <<"e","m">>)
                           @@ ("order" :> <<"R","A","N","K","I","N","G">>))

\* The characters of a wire token: uppercase letters and the underscore.
C13_TokenChars ==
    {"A","B","C","D","E","F","G","H","I","J","K","L","M","N","O","P","Q","R",
     "S","T","U","V","W","X","Y","Z","_"}

\* C13: wherever a search builder is held or a search is in flight,
\* SearchOrder has eleven values; the wire token of each is a non-empty
\* string of uppercase letters and underscores; different values have
\* different tokens; the default is Ranking, written "RANKING"; the
\* builder's order is one of the eleven; and the order parameter of the
\* request is the token of exactly one value.
C13_OrderTokens ==
    \A o \in Tasks :
        /\ held[o].kind = "SearchClient" =>
              /\ held[o].b.query.order \in SearchOrders
              /\ Cardinality(SearchOrders) = 11
              /\ default_order = "Ranking"
              /\ order_to_string(default_order) = <<"R","A","N","K","I","N","G">>
              /\ \A a \in SearchOrders :
                    /\ Len(order_to_string(a)) >= 1
                    /\ \A i \in 1..Len(order_to_string(a)) :
                          order_to_string(a)[i] \in C13_TokenChars
                    /\ \A b \in SearchOrders :
                          a # b => order_to_string(a) # order_to_string(b)
        /\ (ops[o].pc # "idle" /\ ops[o].call.op = "send") =>
              Cardinality({a \in SearchOrders :
                             order_to_string(a)
                               = ops[o].sent[1].params.map["order"]}) = 1

\* C13 witness: a search whose builder was given the order TrackDesc is in
\* flight with order = "TRACK_DESC".
C13_Witness ==
    \E o \in Tasks :
        /\ ops[o].pc = "awaiting" /\ ops[o].call.op = "send"
        /\ ops[o].sent[1].params.map["order"]
              = <<"T","R","A","C","K","_","D","E","S","C">>

\* The parameter map of the request task o has sent.
SentMap(o) == ops[o].sent[1].params.map

\* C14: the request of _get_connection has the key limit exactly when a
\* limit was supplied and the key offset exactly when an offset was
\* supplied, and no other key: none supplied, no key; only limit = 5
\* supplied, the map is {limit: "5"}.
C14_PageKeys ==
    \A o \in Tasks :
        (ops[o].pc # "idle" /\ ops[o].call.op = "paged_connection") =>
            LET call == ops[o].call
            IN  /\ Len(ops[o].sent) = 1
                /\ ops[o].sent[1].params.some
                /\ DOMAIN SentMap(o) \subseteq {"limit", "offset"}
                /\ "limit" \in DOMAIN SentMap(o) <=> call.limit.some
                /\ "offset" \in DOMAIN SentMap(o) <=> call.offset.some
                /\ call.limit.some => IsDecimalOf(SentMap(o)["limit"], call.limit.v)
                /\ call.offset.some =>
                      IsDecimalOf(SentMap(o)["offset"], call.offset.v)
                /\ (call.limit = SomeU32(5) /\ ~call.offset.some) =>
                      SentMap(o) = ("limit" :> <<"5">>)

\* C14 witness: _get_connection was called with the limit 5 and no offset,
\* and its request carries limit=5 only.
C14_Witness ==
    \E o \in Tasks :
        /\ ops[o].pc = "awaiting" /\ ops[o].call.op = "paged_connection"
        /\ ops[o].call.limit = SomeU32(5) /\ ops[o].call.offset = NoneU32
        /\ SentMap(o) = ("limit" :> <<"5">>)

C16_ListPath(T) ==
    CASE T = "Editorial" -> <<"e","d","i","t","o","r","i","a","l">>
      [] T = "Genre" -> <<"g","e","n","r","e">>
      [] T = "Radio" -> <<"r","a","d","i","o">>

\* The elements of a well-formed envelope as decoded records, in the
\* envelope's order.
ElementsOf(T, body) ==
    [i \in 1..Len(body.data) |-> [type |-> T, id |-> body.data[i].id]]

\* Task o got a response that is not rejected for its status and whose body
\* is a well-formed envelope for o's operation.
GotEnvelope(o) ==
    /\ ops[o].resp.t = "http"
    /\ ops[o].resp.status < 400
    /\ IsEnvelopeOf(ops[o].call.T, ops[o].resp.body)

\* C16: editorials, genres and radios, and T::get_all, send exactly one
\* request, a GET of <origin>/editorial, /genre or /radio with no further
\* segment and no parameter map, and return every element of that one
\* response's data array.
C16_ListAll ==
    \A o \in Tasks :
        (ops[o].pc # "idle"
         /\ ops[o].call.op \in {"get_all", "enumerable_get_all"}) =>
            /\ ops[o].call.T \in {"Editorial", "Genre", "Radio"}
            /\ Len(ops[o].sent) = 1
            /\ ops[o].sent[1].method = "GET"
            /\ ops[o].sent[1].url
                  = BASE_URL \o <<"/">> \o C16_ListPath(ops[o].call.T)
            /\ PathOf(ops[o].sent[1].url) = <<C16_ListPath(ops[o].call.T)>>
            /\ ops[o].sent[1].params = NoParams
            /\ (Ended(o) /\ GotEnvelope(o)) =>
                  /\ Done(o)
                  /\ ops[o].result
                        = Ok(ElementsOf(ops[o].call.T, ops[o].resp.body))

\* C16 witness: genres() asked for <origin>/genre and returned the two
\* elements of the response.
C16_Witness ==
    \E o \in Tasks :
        /\ Done(o) /\ ops[o].call.op = "get_all" /\ ops[o].call.T = "Genre"
        /\ ops[o].sent[1].url = BASE_URL \o <<"/","g","e","n","r","e">>
        /\ GotEnvelope(o) /\ Len(ops[o].resp.body.data) = 2
        /\ ops[o].result.t = "Ok" /\ Len(ops[o].result.v) = 2

\* C17: every operation that returns a sequence (list-all, connection,
\* paginated connection, search), given a response whose status is not
\* rejected and whose body is a well-formed envelope, returns Ok of exactly
\* the envelope's elements in the envelope's order: as many, the i-th being
\* the i-th; an empty envelope gives Ok of the empty sequence.
C17_EnvelopeOrder ==
    \A o \in Tasks :
        (Ended(o) /\ ops[o].call.op \in ArrayOps /\ GotEnvelope(o)) =>
            LET data == ops[o].resp.body.data
            IN  /\ Done(o)
                /\ ops[o].result.t = "Ok"
                /\ Len(ops[o].result.v) = Len(data)
                /\ \A i \in 1..Len(data) :
                      ops[o].result.v[i]
                        = [type |-> ops[o].call.T, id |-> data[i].id]
                /\ data = <<>> => ops[o].result = Ok(<<>>)

\* C17 witness: a search got the envelope [5, 0] and returned the records
\* with ids 5 and 0 in that order.
C17_Witness ==
    \E o \in Tasks :
        /\ Done(o) /\ ops[o].call.op = "send" /\ GotStatus(o, 200)
        /\ ops[o].resp.body
              = JEnvelope(<<JObject("SearchedAlbum", 5), JObject("SearchedAlbum", 0)>>)
        /\ ops[o].result
              = Ok(<<[type |-> "SearchedAlbum", id |-> 5],
                     [type |-> "SearchedAlbum", id |-> 0]>>)

\* The operations that issue a request: the terminal accessors of the
\* builders and the fetch methods.
C18_Terminal ==
    {"album_get", "connection", "send", "by_id", "object_get", "get_all",
     "enumerable_get_all", "paged_connection", "scalar", "get_full"}

\* C18: a step that makes or changes a builder value (albums().id, upc,
\* search, strict, order) issues no request and touches no operation; a
\* request is issued only by the step that starts a terminal accessor or a
\* fetch method; a task that has started none has issued no request.
C18_NoRequestFromBuilders ==
    /\ [](\A o \in Tasks : ops[o].pc = "idle" => ops[o].sent = <<>>)
    /\ [][\A o \in Tasks :
             /\ (held'[o] # held[o] /\ held'[o] # Nothing) => ops'[o] = ops[o]
             /\ (ops'[o].sent # ops[o].sent /\ ops'[o].sent # <<>>) =>
                   /\ ops'[o].call.op \in C18_Terminal
                   /\ held'[o] = held[o] \/ ops'[o].call.op = "send"
       ]_vars

\* C18 witness: a search builder was made and both its setters were called,
\* and the task has issued no request.
C18_Witness ==
    \E o \in Tasks :
        /\ held[o].kind = "SearchClient"
        /\ held[o].b.query.strict /\ held[o].b.query.order = "AlbumDesc"
        /\ ops[o].pc = "idle" /\ ops[o].sent = <<>>

\* C19: send() takes the builder away from its holder: the step that starts
\* a send starts from a held builder and leaves nothing held, the send issues
\* one request and no more, and while it runs and when it has ended the
\* holder has no builder to send again or to modify; another search starts
\* only from a builder made anew.
C19_SendConsumes ==
    /\ [](\A o \in Tasks :
            (ops[o].pc # "idle" /\ ops[o].call.op = "send") =>
                /\ held[o] = Nothing
                /\ Len(ops[o].sent) = 1)
    /\ [][\A o \in Tasks :
             (ops[o].pc = "idle" /\ ops'[o].pc # "idle"
              /\ ops'[o].call.op = "send") =>
                 /\ held[o].kind = "SearchClient"
                 /\ held'[o] = Nothing
       ]_vars

\* C19 witness: a search has been sent and has ended, and its builder is
\* no longer held.
C19_Witness ==
    \E o \in Tasks :
        /\ Done(o) /\ ops[o].call.op = "send"
        /\ Len(ops[o].sent) = 1
        /\ held[o] = Nothing

\* The result an operation has by its own call and its own response alone:
\* the transport's failure; for a by-id fetch None on 404; the status error
\* on an error status; the decoded body, or the decode error.
C20_OwnResult(call, resp) ==
    IF resp.t = "fail" THEN Err("transport", 0)
    ELSE IF call.op \in ByIdOps /\ resp.status = 404 THEN Ok(NoneV)
    ELSE IF resp.status >= 400 THEN Err("status", resp.status)
    ELSE IF call.op \in ByIdOps
         THEN IF IsObjectOf(call.T, resp.body)
              THEN Ok(Some([type |-> call.T, id |-> resp.body.id]))
              ELSE Err("decode", 0)
         ELSE IF IsEnvelopeOf(call.T, resp.body)
              THEN Ok(ElementsOf(call.T, resp.body))
              ELSE Err("decode", 0)

\* C20: with two operations running at once on one client or its clones,
\* in every interleaving each operation that has ended has the result its
\* own call and its own response determine; an operation's next step is
\* enabled whatever the other is doing (it waits for its own response only);
\* and a step of one operation changes nothing of the other.
C20_Independent ==
    /\ [](\A o \in ConcurrentTasks :
            /\ Done(o) => ops[o].result = C20_OwnResult(ops[o].call, ops[o].resp)
            /\ ops[o].pc = "idle" => ENABLED CallById(o)
            /\ ops[o].pc = "awaiting" => ENABLED Deliver(o)
            /\ ops[o].pc = "ready" => ENABLED Resume(o)
            /\ Ended(o) => ENABLED Release(o))
    /\ [][\A o \in ConcurrentTasks, p \in ConcurrentTasks :
             (o # p /\ (ops'[o] # ops[o] \/ held'[o] # held[o])) =>
                 (ops'[p] = ops[p] /\ held'[p] = held[p])
       ]_vars

\* C20 witness: two fetches of the album 5 were in flight together; the one
\* has ended with the album its 200 response carried while the other, whose
\* request is the same, has received 404 and has not ended yet.
C20_Witness ==
    /\ DOMAIN ops = ConcurrentTasks
    /\ ops["t1"].call.op = "by_id" /\ ops["t2"].call.op = "by_id"
    /\ ops["t1"].sent = ops["t2"].sent
    /\ ops["t1"].pc = "ready" /\ GotStatus("t1", 404)
    /\ Done("t2") /\ GotStatus("t2", 200)
    /\ ops["t2"].result = Ok(Some([type |-> "Album", id |-> 5]))

C22_EntryPoints(T) ==
    {"object_get"}
        \cup (IF T \in ClientKinds THEN {"by_id"} ELSE {})
        \cup (IF T = "Album" THEN {"album_get"} ELSE {})

\* The request entry point e sends for the T with id n, and the result it
\* maps the response resp to.
C22_RequestOf(e, T, n) ==
    CASE e = "object_get" -> get_entity_request(T, n, "new")
      [] e = "by_id" -> get_entity_request(T, n, "caller")
      [] e = "album_get" -> album_get_request(IdentifierId(n))

C22_ResultOf(e, T, n, resp) == outcome(Call(e, T, n, "none"), resp)

\* C22: a by-id fetch of the T with id n, through whichever entry point it
\* was made (albums().id(n).get() included), has sent the GET every other
\* entry point of T sends for n, to the same URL with no parameters, and
\* ends with the result every other entry point maps its response to.
C22_EntryPointsAgree ==
    \A o \in Tasks :
        (/\ ops[o].pc # "idle" /\ ops[o].call.op \in ByIdOps
         /\ ops[o].call.op = "album_get" => held[o].identifier.tag = "Id") =>
            LET T == ops[o].call.T
                n == IF ops[o].call.op = "album_get"
                     THEN held[o].identifier.id ELSE ops[o].call.id
            IN  /\ ops[o].call.op \in C22_EntryPoints(T)
                /\ \A e \in C22_EntryPoints(T) :
                      /\ ops[o].sent[1].url = C22_RequestOf(e, T, n).url
                      /\ ops[o].sent[1].method = C22_RequestOf(e, T, n).method
                      /\ ops[o].sent[1].params = C22_RequestOf(e, T, n).params
                      /\ Ended(o) =>
                            /\ Done(o)
                            /\ ops[o].result
                                  = C22_ResultOf(e, T, n, ops[o].resp).result

\* C22 witness: albums().id(5).get() asked for <origin>/album/5, as
\* Album::get(5) and DeezerClient::album(5) do, and returned the album its
\* 200 response carried.
C22_Witness ==
    \E o \in Tasks :
        /\ Done(o) /\ ops[o].call.op = "album_get"
        /\ held[o] = AlbumClient(IdentifierId(5))
        /\ ops[o].sent[1].url = BASE_URL \o <<"/","a","l","b","u","m","/","5">>
        /\ ops[o].sent[1].url = get_entity_request("Album", 5, "new").url
        /\ GotStatus(o, 200)
        /\ ops[o].result = Ok(Some([type |-> "Album", id |-> 5]))

\* The first path segment get_full() of each referenced-subset record asks
\* for: the kind of the full record it returns.
C23_FullPath(S) ==
    CASE S = "AlbumArtist" -> <<"a","r","t","i","s","t">>
      [] S = "AlbumTrackArtist" -> <<"a","r","t","i","s","t">>
      [] S = "AlbumTrack" -> <<"t","r","a","c","k">>
      [] S = "AlbumGenre" -> <<"g","e","n","r","e">>
      [] S = "ContributorArtist" -> <<"a","r","t","i","s","t">>
      [] S = "ArtistAlbum" -> <<"a","l","b","u","m">>
      [] S = "CommentAuthor" -> <<"u","s","e","r">>
      [] S = "PlaylistUser" -> <<"u","s","e","r">>
      [] S = "PlaylistTrack" -> <<"t","r","a","c","k">>
      [] S = "PlaylistTrackArtist" -> <<"a","r","t","i","s","t">>
      [] S = "PlaylistTrackAlbum" -> <<"a","l","b","u","m">>
      [] S = "TrackArtist" -> <<"a","r","t","i","s","t">>
      [] S = "TrackAlbum" -> <<"a","l","b","u","m">>
      [] S = "ChartTrack" -> <<"t","r","a","c","k">>
      [] S = "ChartTrackArtist" -> <<"a","r","t","i","s","t">>
      [] S = "ChartTrackAlbum" -> <<"a","l","b","u","m">>
      [] S = "ChartAlbum" -> <<"a","l","b","u","m">>
      [] S = "ChartAlbumArtist" -> <<"a","r","t","i","s","t">>
      [] S = "ChartArtist" -> <<"a","r","t","i","s","t">>
      [] S = "ChartPlaylist" -> <<"p","l","a","y","l","i","s","t">>

\* C23: get_full() of a referenced-subset record whose id field is n sends
\* exactly one request, a GET of <origin>/<full kind>/<n> with no
\* parameters, through a client made inside the call and not the caller's;
\* a value it returns is a record of the full kind.
C23_GetFullFetch ==
    \A o \in Tasks :
        (ops[o].pc # "idle" /\ ops[o].call.op = "get_full") =>
            LET path == PathOf(ops[o].sent[1].url)
            IN  /\ ops[o].call.from \in SubsetKinds
                /\ Len(ops[o].sent) = 1
                /\ ops[o].sent[1].method = "GET"
                /\ ops[o].sent[1].params = NoParams
                /\ ops[o].sent[1].client = "new"
                /\ Len(path) = 2
                /\ path[1] = C23_FullPath(ops[o].call.from)
                /\ IsDecimalOf(path[2], ops[o].call.id)
                /\ (Done(o) /\ ops[o].result.t = "Ok") =>
                      /\ C9_KindName(ops[o].result.v.type) = path[1]
                      /\ ops[o].result.v.type # "ArtistAlbum"

\* C23 witness: get_full() of an ArtistAlbum with id 5 asked for
\* <origin>/album/5 through a new client and returned the album.
C23_Witness ==
    \E o \in Tasks :
        /\ Done(o) /\ ops[o].call.op = "get_full"
        /\ ops[o].call.from = "ArtistAlbum" /\ ops[o].call.id = 5
        /\ ops[o].sent
              = <<[method |-> "GET",
                   url |-> BASE_URL \o <<"/","a","l","b","u","m","/","5">>,
                   params |-> NoParams, client |-> "new"]>>
        /\ ops[o].result = Ok([type |-> "Album", id |-> 5])

\* C24: what iter(), the slice views (deref, as_ref) and into_iter() of a
\* DeezerArray expose is a sequence with the length of its data field and
\* the same element at every index, hence the same for all four; its
\* elements are the records, none is the wrapper.
C24_ViewsExposeData ==
    \A o \in Tasks :
        held[o].kind = "view" =>
            LET a == held[o].of
                out == held[o].out
            IN  /\ held[o].via \in {"iter", "deref", "as_ref", "into_iter"}
                /\ DOMAIN out = 1..Len(a.data)
                /\ \A i \in 1..Len(a.data) :
                      out[i] = a.data[i] /\ DOMAIN out[i] = {"type", "id"}
                /\ out = iter(a) /\ out = deref(a)
                /\ out = as_ref(a) /\ out = into_iter(a)

\* C24 witness: deref of the array [5, 0] exposed the slice [5, 0].
C24_Witness ==
    \E o \in Tasks :
        /\ held[o].kind = "view" /\ held[o].via = "deref"
        /\ held[o].of = [data |-> <<[type |-> "AlbumTrack", id |-> 5],
                                    [type |-> "AlbumTrack", id |-> 0]>>]
        /\ held[o].out = <<[type |-> "AlbumTrack", id |-> 5],
                           [type |-> "AlbumTrack", id |-> 0]>>

\* The fixed origin, spelled out.
C25_Origin ==
    <<"h","t","t","p","s",":","/","/",
      "a","p","i",".","d","e","e","z","e","r",".","c","o","m">>

\* The first path segments the operations ask under.
C25_Roots ==
    {<<"a","l","b","u","m">>, <<"a","r","t","i","s","t">>,
     <<"c","o","m","m","e","n","t">>, <<"e","d","i","t","o","r","i","a","l">>,
     <<"g","e","n","r","e">>, <<"p","l","a","y","l","i","s","t">>,
     <<"r","a","d","i","o">>, <<"t","r","a","c","k">>, <<"u","s","e","r">>,
     <<"s","e","a","r","c","h">>, <<"i","n","f","o","s">>,
     <<"c","h","a","r","t">>, <<"o","p","t","i","o","n","s">>}

\* C25: every request any operation has issued is a GET whose URL is the
\* origin https://api.deezer.com, a slash, and a relative path that starts
\* with the resource root of the operation; an operation that is running or
\* has ended has issued at least one.
C25_GetToOrigin ==
    \A o \in Tasks :
        /\ ops[o].pc # "idle" => Len(ops[o].sent) >= 1
        /\ \A i \in 1..Len(ops[o].sent) :
              LET url == ops[o].sent[i].url
                  n == Len(C25_Origin)
              IN  /\ ops[o].sent[i].method = "GET"
                  /\ Len(url) > n + 1
                  /\ SubSeq(url, 1, n) = C25_Origin
                  /\ url[n + 1] = "/"
                  /\ url[n + 2] # "/"
                  /\ Split(SubSeq(url, n + 2, Len(url)), "/")[1] \in C25_Roots

\* C25 witness: a search is in flight as a GET of
\* https://api.deezer.com/search/album.
C25_Witness ==
    \E o \in Tasks :
        /\ ops[o].pc = "awaiting" /\ ops[o].call.op = "send"
        /\ ops[o].sent[1].method = "GET"
        /\ ops[o].sent[1].url
              = C25_Origin \o <<"/","s","e","a","r","c","h","/","a","l","b","u","m">>

\* The outcome a status alone decides for task o: None for 404 on a by-id
\* fetch (get_full() unwraps it and panics), the status error otherwise.
C26_StatusOutcome(o) ==
    LET st == ops[o].resp.status
    IN  IF ops[o].call.op \in ByIdOps /\ st = 404
        THEN Done(o) /\ ops[o].result = Ok(NoneV)
        ELSE IF ops[o].call.op = "get_full" /\ st = 404
        THEN ops[o].pc = "panicked"
        ELSE Done(o) /\ ops[o].result = Err("status", st)

\* C26 as stated: an operation that received a status outside 200..299 ends
\* with the outcome of that status, whatever its body, and never with a
\* decode error.
C26_Original ==
    \A o \in Tasks :
        (Ended(o) /\ ops[o].resp.t = "http"
         /\ ~(ops[o].resp.status >= 200 /\ ops[o].resp.status <= 299)) =>
            /\ C26_StatusOutcome(o)
            /\ ops[o].result # Err("decode", 0)

\* C26: an operation that received 404 or another client or server error
\* status (400..599) ends with the outcome of that status, whatever its
\* body, a body that would decode included, and never with a decode error;
\* a decode error is reported only for a response whose status is outside
\* 400..599, and there only for a body that does not decode.
C26_StatusBeforeBody ==
    \A o \in Tasks :
        /\ (Ended(o) /\ ops[o].resp.t = "http"
             /\ ops[o].resp.status >= 400 /\ ops[o].resp.status <= 599) =>
                /\ C26_StatusOutcome(o)
                /\ ops[o].result # Err("decode", 0)
        /\ (Ended(o) /\ ops[o].result = Err("decode", 0)) =>
                /\ ops[o].resp.t = "http"
                /\ ops[o].resp.status < 400
                /\ ~WellFormed(o)

\* C26 witness: a list fetch received 500 around a well-formed envelope of
\* two elements and ended with the status error.
C26_Witness ==
    \E o \in Tasks :
        /\ Done(o) /\ ops[o].call.op = "get_all" /\ GotStatus(o, 500)
        /\ WellFormed(o) /\ Len(ops[o].resp.body.data) = 2
        /\ ops[o].result = Err("status", 500)

\* The operations of the public API: all but _get_connection, which is
\* pub(crate) and called from nowhere in the crate.
C27_PublicOps == C18_Terminal \ {"paged_connection"}

C28_BuilderAlgebra ==
    /\ [](\A o \in Tasks :
            held[o].kind = "SearchClient" =>
                LET b == held[o].b
                IN  /\ strict(strict(b)) = strict(b)
                    /\ strict(b).query.strict
                    /\ \A x \in SearchOrders, y \in SearchOrders :
                          /\ order(order(b, x), y) = order(b, y)
                          /\ strict(order(b, x)) = order(strict(b), x)
                          /\ b.query.strict => order(b, x).query.strict
                          /\ order(b, x).query.query = b.query.query
                          /\ strict(b).query.query = b.query.query)
    /\ [][\A o \in Tasks :
             (held[o].kind = "SearchClient" /\ held'[o].kind = "SearchClient") =>
                 /\ held[o].b.query.strict => held'[o].b.query.strict
                 /\ held'[o].b.query.query = held[o].b.query.query
       ]_vars

\* C28 witness: a builder for "em" on which strict() and order(TrackAsc)
\* were called is held, strict and ordered by TrackAsc, its text unchanged.
C28_Witness ==
    \E o \in Tasks :
        /\ held[o].kind = "SearchClient"
        /\ held[o].b.query
              = [query |-> <<"e","m">>, strict |-> TRUE, order |-> "TrackAsc"]

\* C29: on every search builder a caller can hold, strict() changes nothing
\* but the strict flag (query text, order, search resource and client stay)
\* and order(x) changes nothing but the order (query text, strict flag,
\* search resource and client stay).
C29_BuilderFrame ==
    \A o \in Tasks :
        held[o].kind = "SearchClient" =>
            LET b == held[o].b
            IN  /\ strict(b).query.query = b.query.query
                /\ strict(b).query.order = b.query.order
                /\ strict(b).resource = b.resource
                /\ strict(b).client = b.client
                /\ DOMAIN strict(b) = DOMAIN b
                /\ \A x \in SearchOrders :
                      /\ order(b, x).query.query = b.query.query
                      /\ order(b, x).query.strict = b.query.strict
                      /\ order(b, x).resource = b.resource
                      /\ order(b, x).client = b.client
                      /\ order(b, x).query.order = x
                      /\ DOMAIN order(b, x) = DOMAIN b

\* C29 witness: a strict builder ordered by RatingDesc is held, with the
\* text, resource and client it was made with.
C29_Witness ==
    \E o \in Tasks :
        /\ held[o].kind = "SearchClient"
        /\ held[o].b.query
              = [query |-> <<"e","m">>, strict |-> TRUE, order |-> "RatingDesc"]
        /\ held[o].b.resource = "Albums" /\ held[o].b.client = "caller"

\* C30 as stated: every operation that was invoked and awaits its response
\* comes to hand its caller a typed value, an absent marker or an error.
C30_Original ==
    \A o \in Tasks : (ops[o].pc = "awaiting") ~> HandsOver(o)

\* C30: with a transport that answers in the end, every operation that was
\* invoked ends: it hands over a typed value, an absent marker or an error,
\* or, for get_full() answered with 404, it panics; it has sent one request
\* and does not go back to waiting once answered; its next step depends on
\* nothing but its own response; and once it has ended its outcome stays
\* as it is until the caller takes it.
C30_Terminates ==
    /\ \A o \in Tasks : (ops[o].pc = "awaiting") ~> Ended(o)
    /\ [](\A o \in Tasks :
            /\ ops[o].pc # "idle" => Len(ops[o].sent) = 1
            /\ ops[o].pc = "awaiting" => ENABLED Deliver(o)
            /\ ops[o].pc = "ready" => ENABLED Resume(o)
            /\ Ended(o) =>
                  \/ HandsOver(o)
                  \/ /\ ops[o].pc = "panicked"
                     /\ ops[o].call.op = "get_full" /\ GotStatus(o, 404))
    /\ [][\A o \in Tasks :
             /\ ops[o].pc = "awaiting" => ops'[o].pc \in {"awaiting", "ready"}
             /\ ops[o].pc = "ready" =>
                   ops'[o].pc \in {"ready", "done", "panicked"}
             /\ Ended(o) => (ops'[o] = ops[o] \/ ops'[o] = Idle)
       ]_vars

\* C30 witness: a search whose transport reported a failure has ended with
\* the transport error, one request sent.
C30_Witness ==
    \E o \in Tasks :
        /\ Done(o) /\ ops[o].call.op = "send"
        /\ ops[o].resp = TransportFailure
        /\ Len(ops[o].sent) = 1
        /\ ops[o].result = Err("transport", 0)

====
